---- MODULE Spec2Model ----
(***************************************************************************)
(* A model of js-kit: the Logger singleton (both implementations found in   *)
(* src/lib/logger.js), the Filer facade and the Utils facade                *)
(* (src/lib/utils.js).                                                      *)
(*                                                                          *)
(* JavaScript values are tagged tuples: <<"null">>, <<"num", n>>,           *)
(* <<"bool", b>>, <<"str", chars>> with chars a sequence of one-character   *)
(* strings, so that toLowerCase() is computed and not assumed.              *)
(***************************************************************************)
EXTENDS Integers, Sequences, FiniteSets, TLC

VARIABLES
    variant,        \* which Logger implementation is loaded: 1 (logger.js:39) or 2 (logger.js:208)
    instance,       \* Logger.instance: 0 while undefined, else the object that holds it
    nextObj,        \* number of `new Logger()` evaluations so far (objects allocated)
    initCount,      \* number of times initLogFiles has run
    today,          \* index in Dates of the current local calendar date
    firstDay,       \* index in Dates of the date of the first construction (0 before it)
    logFile,        \* this.logFile of the instance (a path), NoPath before construction
    reportFile,     \* this.reportFile of the instance (a path), NoPath before construction
    logs,           \* the logs directory: path -> sequence of lines
    out,            \* standard output: sequence of lines
    diskOk,         \* whether the synchronous writes (appendFileSync, writeFileSync) succeed
    preLogs,        \* the logs directory as it was when the last Logger call started
    preOut,         \* standard output as it was when the last Logger call started
    last,           \* the last call or callback that ran: [op, arg, res, rejected, at]
    fs,             \* the caller's files: path -> [exists, content, mtime]
    now,            \* Date.now(), in milliseconds
    pendingUnlink,  \* path -> number of fs.unlink requests whose callback has not run
    genCalls,       \* number of times the generator has been invoked
    preFs,          \* fs as it was when the last Filer call started
    preGen,         \* genCalls as it was when the last Filer call started
    chain,          \* the caller's progress through `await removeFile(p); await writeToFile(c, p);
                    \* await doesFileExist(p); await readFileContent(p)`, with what it was given
    timers,         \* timers armed by sleep whose callback has not run
    resolved        \* the sleep promise a timer resolved last: [minMs, mx, delay, armedAt, at]

vars == <<variant, instance, nextObj, initCount, today, firstDay, logFile, reportFile,
          logs, out, diskOk, preLogs, preOut, last,
          fs, now, pendingUnlink, genCalls, preFs, preGen, chain, timers, resolved>>

loggerVars == <<variant, instance, nextObj, initCount, today, firstDay, logFile, reportFile>>
filerVars == <<fs, now, pendingUnlink, genCalls, preFs, preGen, chain>>
utilsVars == <<timers, resolved>>

(***************************************************************************)
(* Bounds                                                                   *)
(***************************************************************************)
MaxObjects == 2
MaxLines == 2
MaxPending == 1
MaxGenerated == 2
MaxTicks == 3
MaxInt == 2
MaxClock == 2
TickMs == 500


(***************************************************************************)
(* JavaScript values                                                        *)
(***************************************************************************)
Null == <<"null">>
Num(n) == <<"num", n>>
Bool(b) == <<"bool", b>>
Str(chars) == <<"str", chars>>
IsStr(x) == x[1] = "str"
IsNum(x) == x[1] = "num"

Falsy(x) ==
    \/ x[1] = "null"
    \/ (x[1] = "num" /\ x[2] = 0)
    \/ (x[1] = "bool" /\ ~x[2])
    \/ (x[1] = "str" /\ x[2] = <<>>)

UpperCase == <<"E", "I", "N", "F", "O", "R", "W", "A", "G", "P", "T", "D", "B", "U">>
LowerCase == <<"e", "i", "n", "f", "o", "r", "w", "a", "g", "p", "t", "d", "b", "u">>
Letters == {UpperCase[k] : k \in 1..Len(UpperCase)} \cup {LowerCase[k] : k \in 1..Len(LowerCase)}

LowerChar ==
    [c \in Letters |->
        IF \E k \in 1..Len(UpperCase) : UpperCase[k] = c
        THEN LowerCase[CHOOSE k \in 1..Len(UpperCase) : UpperCase[k] = c]
        ELSE c]

toLowerCase(chars) == [i \in 1..Len(chars) |-> LowerChar[chars[i]]]

(***************************************************************************)
(* Dates and the paths of the two daily files                               *)
(***************************************************************************)
Dates == << [year |-> 2023, month |-> 11, date |-> 30],
            [year |-> 2023, month |-> 11, date |-> 31],
            [year |-> 2024, month |-> 0,  date |-> 1] >>

Digits(n) == IF n < 10 THEN <<n>> ELSE <<n \div 10, n % 10>>
Digits4(n) == <<n \div 1000, (n \div 100) % 10, (n \div 10) % 10, n % 10>>
SliceLast2(s) == IF Len(s) <= 2 THEN s ELSE SubSeq(s, Len(s) - 1, Len(s))

logDateString(d) ==
    Digits4(d.year) \o SliceLast2(<<0>> \o Digits(d.month + 1)) \o SliceLast2(<<0>> \o Digits(d.date))

NoPath == <<"none">>
LogPathOf(d) == <<"logs", "log_", logDateString(d)>>
ReportPathOf(d) == <<"logs", "report_", logDateString(d)>>

ensureLogFileExists(dir, lf, rf) ==
    [p \in DOMAIN dir \cup {lf, rf} |-> IF p \in DOMAIN dir THEN dir[p] ELSE <<>>]

appendFileSync(dir, p, line) ==
    [q \in DOMAIN dir \cup {p} |-> IF q = p
                                    THEN (IF q \in DOMAIN dir THEN dir[q] ELSE <<>>) \o <<line>>
                                    ELSE dir[q]]

(***************************************************************************)
(* Logger.logType: the level table                                          *)
(***************************************************************************)
sError == <<"e", "r", "r", "o", "r">>
sWarning == <<"w", "a", "r", "n", "i", "n", "g">>
sReport == <<"r", "e", "p", "o", "r", "t">>
sInfo == <<"i", "n", "f", "o">>

logType(type) ==
    LET t == toLowerCase(type) IN
    CASE t = sError \/ t = <<"e">> ->
            [type |-> "[ERROR]", report |-> TRUE, onConsole |-> TRUE, file |-> logFile]
      [] t = sWarning \/ t = <<"w">> ->
            [type |-> "[WARNING]", report |-> FALSE, onConsole |-> FALSE, file |-> logFile]
      [] t = sReport \/ t = <<"r">> ->
            [type |-> "[INFO]", report |-> TRUE, onConsole |-> FALSE, file |-> reportFile]
      [] OTHER ->
            [type |-> "[INFO]", report |-> FALSE, onConsole |-> FALSE, file |-> logFile]

(***************************************************************************)
(* Logger.log: the rendered line, then the console, then the append.        *)
(* An io value is [logs, out, rejected].                                    *)
(***************************************************************************)
logMessage(message, type) ==
    IF variant = 1
    THEN IF type # sReport
         THEN [fmt |-> "[ts] tag Class.method: msg", tag |-> logType(type).type, msg |-> message]
         ELSE [fmt |-> "[ts] msg", tag |-> "", msg |-> message]
    ELSE [fmt |-> "[ts] tag msg", tag |-> logType(type).type, msg |-> message]

\* log echoing every level to the console
logEchoAll(io, message, level) ==
    IF ~IsStr(level)
    THEN [io EXCEPT !.rejected = TRUE]
    ELSE LET lt == logType(level[2])
             line == logMessage(message, level[2])
         IN  IF diskOk
             THEN [logs |-> appendFileSync(io.logs, lt.file, line), out |-> io.out \o <<line>>,
                   rejected |-> io.rejected]
             ELSE [logs |-> io.logs, out |-> io.out \o <<line>>, rejected |-> TRUE]

log(io, message, level) ==
    IF ~IsStr(level)
    THEN [io EXCEPT !.rejected = TRUE]
    ELSE LET lt == logType(level[2])
             line == logMessage(message, level[2])
             printed == IF lt.onConsole THEN io.out \o <<line>> ELSE io.out
         IN  IF diskOk
             THEN [logs |-> appendFileSync(io.logs, lt.file, line), out |-> printed,
                   rejected |-> io.rejected]
             ELSE [logs |-> io.logs, out |-> printed, rejected |-> TRUE]

error(io, message) == log(io, message, Str(sError))
warning(io, message) == log(io, message, Str(sWarning))
report(io, message) ==
    IF variant = 1
    THEN LET io1 == log(io, message, Str(sReport))
         IN  IF io1.rejected THEN io1 ELSE log(io1, message, Str(sInfo))
    ELSE log(io, message, Str(sReport))

io0 == [logs |-> logs, out |-> out, rejected |-> FALSE]

(***************************************************************************)
(* Inputs                                                                   *)
(***************************************************************************)
Messages == {"m"}
Spellings(x) ==
    CASE x = sInfo    -> {sInfo, <<"I", "N", "F", "O">>, <<"i">>}
      [] x = sWarning -> {sWarning, <<"W", "a", "r", "n", "i", "n", "g">>, <<"W">>}
      [] x = sError   -> {sError, <<"E", "R", "R", "O", "R">>, <<"e">>}
      [] x = sReport  -> {sReport, <<"R", "e", "p", "o", "r", "t">>, <<"r">>, <<"R">>}
LevelNames == {sInfo, sWarning, sError, sReport}
StringLevels == {Str(s) : s \in UNION {Spellings(x) : x \in LevelNames} \cup {<<"d", "e", "b", "u", "g">>}}
AnyLevels == StringLevels \cup {Null, Num(1)}
TimePeriods == {Null, Num(0), Num(1)}
Numbers == {Num(n) : n \in (0 - MaxInt)..MaxInt}

(***************************************************************************)
(* Filer: the pure parts                                                    *)
(***************************************************************************)
MsPerSecond == 1000
WeekSeconds == 604800

Paths == {"p"}
Absent == [exists |-> FALSE, content |-> <<>>, mtime |-> 0]
Contents == {<<>>, <<"hello">>}
GeneratorResult(n) == <<"generated", n>>

ToNumber(x) ==
    CASE x[1] = "null" -> 0
      [] x[1] = "num" -> x[2]
      [] x[1] = "bool" -> (IF x[2] THEN 1 ELSE 0)

doesFileExist(files, p) == files[p].exists

writeFileSync(files, p, content) ==
    [files EXCEPT ![p] = [exists |-> TRUE, content |-> content, mtime |-> now]]

\* the skip test with the boundary on the wrong side
YoungEnoughInclusive(files, p, timePeriod) ==
    (now - files[p].mtime) <= ToNumber(timePeriod) * MsPerSecond

\* utils.js:182, the test that skips the update
YoungEnough(files, p, timePeriod) ==
    (now - files[p].mtime) < ToNumber(timePeriod) * MsPerSecond

\* A Filer state is [fs, io, gen]: the files, the logger's io and the generator's count.
writeToFile(st, content, p) ==
    IF diskOk
    THEN [st EXCEPT !.fs = writeFileSync(st.fs, p, content),
                    !.io = log(st.io, "New data has been written", Str(sInfo))]
    ELSE [st EXCEPT !.io = error(st.io, "write failed")]

updateFile(st, p, timePeriod, generateDataMethod) ==
    IF doesFileExist(st.fs, p) /\ YoungEnough(st.fs, p, timePeriod)
    THEN [st EXCEPT !.io = log(st.io, "young enough to skip", Str(sInfo))]
    ELSE LET st1 == [st EXCEPT !.io = log(st.io, "is modified before", Str(sInfo))]
         IN  CASE generateDataMethod = "none" -> writeToFile(st1, <<>>, p)
               [] generateDataMethod = "fresh" ->
                    writeToFile([st1 EXCEPT !.gen = st.gen + 1], GeneratorResult(st.gen + 1), p)
               [] generateDataMethod = "throws" ->
                    [st1 EXCEPT !.gen = st.gen + 1, !.io = error(st1.io, "generator failed")]

st0 == [fs |-> fs, io |-> io0, gen |-> genCalls]

(***************************************************************************)
(* Utils: the pure parts                                                    *)
(***************************************************************************)
\* Math.random() is k / RandomSteps for a k in 0 .. RandomSteps - 1: a grid as fine as
\* the widest range asked for, so that every outcome of the floor has a k
RandomSteps == 2 * MaxInt + 1
\* the range taken one short, so that max is never drawn
RandomIntExclusive(min, max, k) == ((k * (max - min)) \div RandomSteps) + min

RandomInt(min, max, k) == ((k * (max - min + 1)) \div RandomSteps) + min

\* the draws that matter: one when Math.random() is not called
RandomDraws(called) == IF called THEN 0..(RandomSteps - 1) ELSE {0}

\* [res, io]
getRandomInt(io, min, max, k) ==
    IF Falsy(min) \/ Falsy(max)
    THEN [res |-> Bool(FALSE), io |-> error(io, "No parameter were specified!")]
    ELSE [res |-> Num(RandomInt(min[2], max[2], k)),
          io |-> log(io, "A random int has been generated", Str(sInfo))]

\* the random delay drawn one past the maximum
SleepDelayPastMax(io, ms, mx, k) ==
    IF mx # Null THEN getRandomInt(io, ms, Num(mx[2] + 1), k) ELSE [res |-> ms, io |-> io]

\* the delay sleep hands to setTimeout, [res, io]
SleepDelay(io, ms, mx, k) ==
    IF mx # Null THEN getRandomInt(io, ms, mx, k) ELSE [res |-> ms, io |-> io]

\* setTimeout: a delay that is not a number >= 1 is 1
TimerDelay(d) == IF ToNumber(d) >= 1 THEN ToNumber(d) ELSE 1

(***************************************************************************)
(* Initial state: the modules are loaded, no Logger has been constructed    *)
(***************************************************************************)
NoChain == [n |-> 0, c |-> <<>>, exists |-> FALSE, read |-> <<>>]

NoTimer == [minMs |-> Null, mx |-> Null, delay |-> Null, armedAt |-> 0, at |-> 0]

Room == (\A p \in DOMAIN logs : Len(logs[p]) < MaxLines) /\ Len(out) < MaxLines

\* a constructor without the singleton guard
NeedsInitAlways == TRUE

NeedsInit == instance = 0

Init ==
    /\ variant \in {1, 2}
    /\ instance = 0
    /\ nextObj = 0
    /\ initCount = 0
    /\ today = 1
    /\ firstDay = 0
    /\ logFile = NoPath
    /\ reportFile = NoPath
    /\ logs = << >>
    /\ out = << >>
    /\ diskOk = TRUE
    /\ preLogs = << >>
    /\ preOut = << >>
    /\ last = [op |-> "load", arg |-> Null, res |-> Null, rejected |-> FALSE, at |-> 0]
    /\ fs = [p \in Paths |-> Absent]
    /\ now = 0
    /\ pendingUnlink = [p \in Paths |-> 0]
    /\ genCalls = 0
    /\ preFs = [p \in Paths |-> Absent]
    /\ preGen = 0
    /\ chain = NoChain
    /\ timers = {}
    /\ resolved = NoTimer

(***************************************************************************)
(* Logger: constructor and the public calls                                 *)
(***************************************************************************)
NewLogger ==
    /\ nextObj < MaxObjects
    /\ nextObj' = nextObj + 1
    /\ IF NeedsInit
       THEN /\ instance' = nextObj + 1
            /\ initCount' = initCount + 1
            /\ logFile' = LogPathOf(Dates[today])
            /\ reportFile' = ReportPathOf(Dates[today])
            /\ logs' = ensureLogFileExists(logs, logFile', reportFile')
       ELSE UNCHANGED <<instance, initCount, logFile, reportFile, logs>>
    /\ firstDay' = IF nextObj = 0 THEN today ELSE firstDay
    /\ last' = [op |-> "new", arg |-> Num(nextObj + 1), res |-> Num(instance'), rejected |-> FALSE,
                 at |-> now]
    /\ UNCHANGED <<variant, today, out, diskOk, preLogs, preOut, filerVars, utilsVars>>

\* utils.js:1-2 and 53-54: loading the module constructs the logger it uses
LoadUtils == instance = 0 /\ NewLogger

Midnight ==
    /\ today < Len(Dates)
    /\ today' = today + 1
    /\ UNCHANGED <<variant, instance, nextObj, initCount, firstDay, logFile, reportFile,
                   logs, out, diskOk, preLogs, preOut, last, filerVars, utilsVars>>

LoggerCall(op, level, io) ==
    /\ logs' = io.logs
    /\ out' = io.out
    /\ preLogs' = logs
    /\ preOut' = out
    /\ last' = [op |-> op, arg |-> level, res |-> Null, rejected |-> io.rejected, at |-> now]
    /\ UNCHANGED <<loggerVars, diskOk, filerVars, utilsVars>>

Log(levels) ==
    /\ instance # 0
    /\ Room
    /\ \E m \in Messages, l \in levels : LoggerCall("log", l, log(io0, m, l))

LogString == Log(StringLevels)
LogAny == Log(AnyLevels)

Error ==
    /\ instance # 0
    /\ Room
    /\ \E m \in Messages : LoggerCall("error", Str(sError), error(io0, m))

Warning ==
    /\ instance # 0
    /\ Room
    /\ \E m \in Messages : LoggerCall("warning", Str(sWarning), warning(io0, m))

Report ==
    /\ instance # 0
    /\ Room
    /\ \E m \in Messages : LoggerCall("report", Str(sReport), report(io0, m))

\* the disk fills up, or the logs directory is removed, and comes back
DiskFails ==
    /\ diskOk' = ~diskOk
    /\ UNCHANGED <<loggerVars, logs, out, preLogs, preOut, last, filerVars, utilsVars>>

(***************************************************************************)
(* Filer: the public calls, and the callback of fs.unlink                   *)
(***************************************************************************)
FilerCall(op, arg, res, rejected, st, n) ==
    /\ fs' = st.fs
    /\ logs' = st.io.logs
    /\ out' = st.io.out
    /\ genCalls' = st.gen
    /\ preFs' = fs
    /\ preGen' = genCalls
    /\ chain' = n
    /\ last' = [op |-> op, arg |-> arg, res |-> res, rejected |-> rejected, at |-> now]
    /\ UNCHANGED <<loggerVars, diskOk, preLogs, preOut, now, pendingUnlink, utilsVars>>

DoesFileExist ==
    /\ instance # 0
    /\ \E p \in Paths :
          FilerCall("doesFileExist", p, Bool(doesFileExist(fs, p)), FALSE, st0,
                    IF chain.n = 2 THEN [chain EXCEPT !.n = 3, !.exists = doesFileExist(fs, p)]
                    ELSE NoChain)

ReadFileContent ==
    /\ instance # 0
    /\ Room
    /\ \E p \in Paths :
          LET text == IF fs[p].exists THEN fs[p].content ELSE Null
              nxt == IF chain.n = 3 THEN [chain EXCEPT !.n = 4, !.read = text] ELSE NoChain
          IN  IF fs[p].exists
              THEN FilerCall("readFileContent", p, text, FALSE, st0, nxt)
              ELSE FilerCall("readFileContent", p, text, FALSE,
                             [st0 EXCEPT !.io = error(io0, "ENOENT")], nxt)

GetFileStats ==
    /\ instance # 0
    /\ \E p \in Paths :
          IF fs[p].exists
          THEN FilerCall("getFileStats", p, Num(fs[p].mtime), FALSE, st0, NoChain)
          ELSE FilerCall("getFileStats", p, Null, TRUE, st0, NoChain)

RemoveFile ==
    /\ instance # 0
    /\ \E p \in Paths :
          /\ pendingUnlink[p] < MaxPending
          /\ pendingUnlink' = [pendingUnlink EXCEPT ![p] = @ + 1]
          /\ preFs' = fs
          /\ preGen' = genCalls
          /\ chain' = [NoChain EXCEPT !.n = 1]
          /\ last' = [op |-> "removeFile", arg |-> p, res |-> Null, rejected |-> FALSE, at |-> now]
          /\ UNCHANGED <<loggerVars, logs, out, diskOk, preLogs, preOut, fs, now, genCalls,
                         utilsVars>>

UnlinkCallback ==
    /\ Room
    /\ \E p \in Paths :
          /\ pendingUnlink[p] > 0
          /\ pendingUnlink' = [pendingUnlink EXCEPT ![p] = @ - 1]
          /\ LET io == IF fs[p].exists
                       THEN log(io0, "removed successfully", Str(sInfo))
                       ELSE error(io0, "Removing: ENOENT")
             IN  /\ logs' = io.logs
                 /\ out' = io.out
          /\ fs' = [fs EXCEPT ![p] = Absent]
          /\ last' = [op |-> "unlinkCallback", arg |-> p, res |-> Null, rejected |-> FALSE,
                       at |-> now]
          /\ UNCHANGED <<loggerVars, diskOk, preLogs, preOut, now, genCalls, preFs,
                         preGen, chain, utilsVars>>

WriteToFile ==
    /\ instance # 0
    /\ Room
    /\ \E p \in Paths, c \in Contents :
          FilerCall("writeToFile", p, Null, FALSE, writeToFile(st0, c, p),
                    IF chain.n = 1 THEN [NoChain EXCEPT !.n = 2, !.c = c] ELSE NoChain)

UpdateFile(generators) ==
    /\ instance # 0
    /\ Room
    /\ genCalls < MaxGenerated
    /\ \E p \in Paths, t \in TimePeriods, g \in generators :
          FilerCall("updateFile", <<p, t, g>>, Null, FALSE, updateFile(st0, p, t, g), NoChain)

UpdateFileOk == UpdateFile({"none", "fresh"})

Tick(step, max) ==
    /\ now + step <= max
    /\ now' = now + step
    /\ UNCHANGED <<loggerVars, logs, out, diskOk, preLogs, preOut, last, fs, pendingUnlink,
                   genCalls, preFs, preGen, chain, utilsVars>>

FilerTick == Tick(TickMs, MaxTicks * TickMs)

(***************************************************************************)
(* Utils: the public calls, and the callback of setTimeout                  *)
(***************************************************************************)
UtilsCall(op, arg, res, io) ==
    /\ logs' = io.logs
    /\ out' = io.out
    /\ last' = [op |-> op, arg |-> arg, res |-> res, rejected |-> FALSE, at |-> now]
    /\ resolved' = NoTimer
    /\ UNCHANGED <<loggerVars, diskOk, preLogs, preOut, filerVars>>

\* The caller awaits each call: while a sleep is pending it makes no other call.
GetRandomInt ==
    /\ instance # 0
    /\ Room
    /\ timers = {}
    /\ \E min \in Numbers, max \in Numbers \cup {Null} :
       \E k \in RandomDraws(~(Falsy(min) \/ Falsy(max))) :
          LET r == getRandomInt(io0, min, max, k) IN
          /\ UtilsCall("getRandomInt", <<min, max>>, r.res, r.io)
          /\ UNCHANGED timers

Sleep ==
    /\ instance # 0
    /\ Room
    /\ timers = {}
    /\ \E ms \in Numbers, mx \in Numbers \cup {Null} :
       \E k \in RandomDraws(~Falsy(ms) /\ mx # Null /\ ~Falsy(mx)) :
          IF Falsy(ms)
          THEN /\ UtilsCall("sleep", <<ms, mx>>, Str(<<"resolved">>),
                            error(io0, "The minimum sleep time wasn't provided!"))
               /\ UNCHANGED timers
          ELSE LET d == SleepDelay(io0, ms, mx, k) IN
               /\ UtilsCall("sleep", <<ms, mx>>, d.res, log(d.io, "Initiating sleep", Str(sInfo)))
               /\ timers' = timers \cup {[minMs |-> ms, mx |-> mx, delay |-> d.res, armedAt |-> now]}

TimerDue(t) == now - t.armedAt >= TimerDelay(t.delay)

TimerCallback ==
    \E t \in timers :
        /\ TimerDue(t)
        /\ timers' = timers \ {t}
        /\ resolved' = [minMs |-> t.minMs, mx |-> t.mx, delay |-> t.delay,
                         armedAt |-> t.armedAt, at |-> now]
        /\ UNCHANGED <<loggerVars, logs, out, diskOk, preLogs, preOut, last, filerVars>>

UtilsTick == Tick(1, MaxClock)

(***************************************************************************)
(* Specifications                                                           *)
(***************************************************************************)
NextLogger == NewLogger \/ Midnight \/ LogString \/ Error \/ Warning \/ Report

SpecLogger == Init /\ [][NextLogger]_vars

NextFault == NewLogger \/ DiskFails \/ LogAny \/ Error \/ Warning \/ Report

SpecFault == Init /\ [][NextFault]_vars

NextFiler ==
    \/ LoadUtils \/ DoesFileExist \/ ReadFileContent \/ GetFileStats \/ RemoveFile
    \/ UnlinkCallback \/ WriteToFile \/ UpdateFileOk \/ FilerTick

SpecFiler == Init /\ [][NextFiler]_vars

NextRandom == LoadUtils \/ GetRandomInt

SpecRandom == Init /\ [][NextRandom]_vars

NextSleep == LoadUtils \/ Sleep \/ TimerCallback \/ UtilsTick

SpecSleep == Init /\ [][NextSleep]_vars

(***************************************************************************)
(* Properties                                                               *)
(***************************************************************************)
LoggerOps == {"log", "error", "warning", "report"}
Appended(dir, pre, p) ==
    /\ p \in DOMAIN dir
    /\ Len(dir[p]) = (IF p \in DOMAIN pre THEN Len(pre[p]) ELSE 0) + 1
    /\ \A i \in 1..(Len(dir[p]) - 1) : dir[p][i] = pre[p][i]
Untouched(dir, pre, p) == p \in DOMAIN dir /\ p \in DOMAIN pre /\ dir[p] = pre[p]

updPath == last.arg[1]
updPeriod == last.arg[2]
updGenerator == last.arg[3]
updAgeMs == last.at - preFs[updPath].mtime
updWritten ==
    /\ genCalls = preGen + (IF updGenerator = "fresh" THEN 1 ELSE 0)
    /\ fs[updPath].exists
    /\ fs[updPath].mtime = last.at
    /\ fs[updPath].content = (IF updGenerator = "fresh" THEN GeneratorResult(preGen + 1) ELSE <<>>)
updSkipped == genCalls = preGen /\ fs[updPath] = preFs[updPath]

C2_DefaultIsAWeek ==
    (/\ last.op = "updateFile"
     /\ updPeriod = Null
     /\ preFs[updPath].exists
     /\ updAgeMs < WeekSeconds * 1000) => updSkipped

\* C3: once `await removeFile(p)` has returned the deletion is done, so that a
\* following writeToFile(c, p) makes doesFileExist(p) true and readFileContent(p) c.
C3_RemoveIsAwaited ==
    /\ chain.n >= 3 => chain.exists
    /\ chain.n = 4 => chain.read = chain.c

C5_ReportOnly ==
    last.op = "report" =>
        /\ Appended(logs, preLogs, reportFile)
        /\ Untouched(logs, preLogs, logFile)
        /\ out = preOut

\* C6: every spelling of a level (any case, or its one-letter alias) gives the
\* destination, the console flag and the line of the level itself, and every line
\* of the report file is `[timestamp] message`, without a level tag.
C6_SpellingsAgree ==
    /\ last.op = "log" =>
          \A x \in LevelNames :
              last.arg[2] \in Spellings(x) =>
                  LET f == logType(x).file IN
                  /\ Appended(logs, preLogs, f)
                  /\ logs[f][Len(logs[f])] = logMessage("m", x)
                  /\ (Len(out) > Len(preOut)) = logType(x).onConsole
    /\ reportFile \in DOMAIN logs =>
          \A i \in 1..Len(logs[reportFile]) : logs[reportFile][i].fmt = "[ts] msg"

\* C7: log, error, warning and report never throw and never return a rejected
\* promise, whatever the level value and also when the append fails.
C7_NeverRaises == last.op \in LoggerOps => ~last.rejected

rndMin == last.arg[1]
rndMax == last.arg[2]
InRange(v, lo, hi) == IsNum(v) /\ lo[2] <= v[2] /\ v[2] <= hi[2]
NonZero == {x \in Numbers : x[2] # 0}

\* C8 as stated: for all integers min <= max, getRandomInt(min, max) is an integer
\* in [min, max].
C8_AllIntegers ==
    (last.op = "getRandomInt" /\ IsNum(rndMax) /\ rndMin[2] <= rndMax[2]) =>
        InRange(last.res, rndMin, rndMax)

\* C8, amended: for all non-zero integers min <= max, getRandomInt(min, max) is an
\* integer in [min, max], and min and max are both outcomes; when min or max is
\* zero (or max is missing) it returns false.
C8_NonZeroIntegers ==
    /\ last.op = "getRandomInt" =>
          IF IsNum(rndMax) /\ rndMin[2] # 0 /\ rndMax[2] # 0
          THEN rndMin[2] <= rndMax[2] => InRange(last.res, rndMin, rndMax)
          ELSE last.res[1] = "bool" /\ ~last.res[2]
    /\ \A lo \in NonZero, hi \in NonZero :
          lo[2] <= hi[2] =>
              /\ \E k \in 0..(RandomSteps - 1) : RandomInt(lo[2], hi[2], k) = lo[2]
              /\ \E k \in 0..(RandomSteps - 1) : RandomInt(lo[2], hi[2], k) = hi[2]

\* getRandomInt returned the maximum of a range of several non-zero integers
C8_Witness ==
    /\ last.op = "getRandomInt"
    /\ IsNum(rndMax)
    /\ rndMin[2] # 0
    /\ rndMax[2] # 0
    /\ rndMin[2] < rndMax[2]
    /\ IsNum(last.res)
    /\ last.res[2] = rndMax[2]

slpMin == last.arg[1]
slpMax == last.arg[2]

C10_Singleton ==
    /\ initCount <= 1
    /\ (nextObj > 0) = (instance # 0)
    /\ instance # 0 =>
          /\ instance = 1
          /\ initCount = 1
          /\ logFile = LogPathOf(Dates[firstDay])
          /\ reportFile = ReportPathOf(Dates[firstDay])
          /\ DOMAIN logs = {logFile, reportFile}
    /\ last.op = "new" => last.res = Num(1)

\* a second construction and a log call after the date has changed
C10_Witness ==
    /\ nextObj >= 2
    /\ today # firstDay
    /\ last.op \in LoggerOps
    /\ Len(logs[logFile]) > 0

====
